---- MODULE Spec2Model ----
(***************************************************************************)
(* Model of ui/src/translations/generate_translations.py: the path codec   *)
(* (flatten_dict / unflatten_dict), the change detector, the per-language  *)
(* translation loop and merge of main, and the multi-language driver.      *)
(*                                                                         *)
(* Strings that the code takes apart (keys, paths, language codes) are     *)
(* sequences of one-character strings; leaf texts, which the code only     *)
(* compares and tests for emptiness, are TLA+ strings.  A Python dict is a *)
(* sequence of <<key, value>> pairs with distinct keys, in insertion       *)
(* order.  A value of a nested catalog is Leaf(text) or Node(dict).        *)
(***************************************************************************)
EXTENDS Integers, Sequences, FiniteSets, TLC

VARIABLES
    \* ---- the pipeline (Spec) ----
    en_file,               \* parsed content of en.json
    git,                   \* what the repository history holds for en.json
    files,                 \* language code -> content of <code>.json
    pass,                  \* number of the driver invocation
    idx,                   \* position in the driver's list of main() calls
    pc,                    \* position inside main
    to_translate,          \* main: to_translate (flat dict)
    pending,               \* keys of to_translate the for loop has not visited
    target_flat,           \* main: target_flat
    translated_flat_dict,  \* main: translated_flat_dict
    calls,                 \* keys for which translate_text was invoked in this run
    failed,                \* keys for which the provider call raised in this run
    log,                   \* the calls of main of this pass, and how the calls
                           \* of the pass before ended
    \* ---- the pure functions (SpecCodec, SpecDetect, SpecMerge, SpecDump) ----
    arg,                   \* the inputs
    res,                   \* the results computed so far
    stage                  \* how many steps were applied

mainVars == <<en_file, git, files, pass, idx, pc, to_translate, pending,
              target_flat, translated_flat_dict, calls, failed, log>>
pureVars == <<arg, res, stage>>
vars == <<en_file, git, files, pass, idx, pc, to_translate, pending,
          target_flat, translated_flat_dict, calls, failed, log, arg, res, stage>>

----------------------------------------------------------------------------
(* Strings *)

sep == <<"|">>

CharCode == ("a" :> 97) @@ ("b" :> 98) @@ ("d" :> 100) @@ ("e" :> 101)
            @@ ("n" :> 110) @@ ("s" :> 115) @@ ("|" :> 124)

\* str.__lt__: comparison by code point, a proper prefix is smaller
RECURSIVE StrLess(_, _)
StrLess(s, t) ==
    IF t = <<>> THEN FALSE
    ELSE IF s = <<>> THEN TRUE
    ELSE IF s[1] # t[1] THEN CharCode[s[1]] < CharCode[t[1]]
    ELSE StrLess(Tail(s), Tail(t))

\* str.startswith
startswith(s, prefix) ==
    /\ Len(s) >= Len(prefix)
    /\ SubSeq(s, 1, Len(prefix)) = prefix

\* str.split(sep) for the one-character separator: never returns an empty list
RECURSIVE split(_)
\* mutant: the key is not split
split_whole(s) == <<s>>
split(s) ==
    IF \A i \in 1..Len(s) : s[i] # sep[1] THEN <<s>>
    ELSE LET i == CHOOSE j \in 1..Len(s) :
                     /\ s[j] = sep[1]
                     /\ \A h \in 1..(j-1) : s[h] # sep[1]
         IN <<SubSeq(s, 1, i-1)>> \o split(SubSeq(s, i+1, Len(s)))

----------------------------------------------------------------------------
(* Python dict: insertion-ordered, distinct keys *)

Leaf(s) == [leaf |-> s]
Node(d) == [node |-> d]
\* isinstance(v, dict)
IsDict(v) == "node" \in DOMAIN v

DictKeys(d) == {d[i][1] : i \in 1..Len(d)}
DictHas(d, k) == \E i \in 1..Len(d) : d[i][1] = k
DictGet(d, k) == d[CHOOSE i \in 1..Len(d) : d[i][1] = k][2]

\* d[k] = v: an existing key keeps its position, a new key goes last
DictSet(d, k, v) ==
    IF DictHas(d, k)
    THEN [i \in 1..Len(d) |-> IF d[i][1] = k THEN <<k, v>> ELSE d[i]]
    ELSE Append(d, <<k, v>>)

\* dict(items)
RECURSIVE dict(_)
dict(items) ==
    IF items = <<>> THEN <<>>
    ELSE LET n == Len(items)
         IN DictSet(dict(SubSeq(items, 1, n-1)), items[n][1], items[n][2])

\* mutant: the target is replaced by the translations
update_replace(d, e) == dict(e)
\* mutant: the translations are appended, an existing key is not replaced
update_append(d, e) == d \o e
\* d.update(e)
update(d, e) == dict(d \o e)

\* dict.__eq__: same keys, equal values, whatever the insertion order
RECURSIVE ToMap(_)
ToMap(d) ==
    [k \in DictKeys(d) |->
        LET v == DictGet(d, k)
        IN IF IsDict(v) THEN Node(ToMap(v.node)) ELSE v]
DictEq(d, e) == ToMap(d) = ToMap(e)

\* a flat dict as a mapping
FlatMap(d) == [k \in DictKeys(d) |-> DictGet(d, k)]

----------------------------------------------------------------------------
(* Path codec *)

RECURSIVE flatten_dict(_, _)
RECURSIVE flatten_items(_, _)
\* the for loop of flatten_dict: the list `items`
flatten_items(d, parent_key) ==
    IF d = <<>> THEN <<>>
    ELSE LET k == d[1][1]
             v == d[1][2]
             new_key == IF parent_key # <<>> THEN parent_key \o sep \o k ELSE k
         IN (IF IsDict(v) THEN flatten_dict(v.node, new_key)
                          ELSE << <<new_key, v.leaf>> >>)
            \o flatten_items(Tail(d), parent_key)

flatten_dict(d, parent_key) == dict(flatten_items(d, parent_key))

\* An exception leaving a function: [ok |-> FALSE]
Raised == [ok |-> FALSE, val |-> <<>>]
Returned(v) == [ok |-> TRUE, val |-> v]

\* the inner loop of unflatten_dict and the final assignment, for one flat key:
\*   for key in keys[:-1]: current = current.setdefault(key, {})
\*   current[keys[-1]] = v
\* setdefault returning a str makes the next step raise (AttributeError on
\* str.setdefault, TypeError on item assignment)
RECURSIVE unflatten_put(_, _, _)
unflatten_put(current, keys, v) ==
    IF Len(keys) = 1 THEN Returned(DictSet(current, keys[1], Leaf(v)))
    ELSE LET key == keys[1]
             child == IF DictHas(current, key) THEN DictGet(current, key)
                                               ELSE Node(<<>>)
         IN IF ~IsDict(child) THEN Raised
            ELSE LET sub == unflatten_put(child.node, Tail(keys), v)
                 IN IF ~sub.ok THEN Raised
                    ELSE Returned(DictSet(current, key, Node(sub.val)))

RECURSIVE unflatten_dict(_)
unflatten_dict(d) ==
    IF d = <<>> THEN Returned(<<>>)
    ELSE LET n == Len(d)
             result == unflatten_dict(SubSeq(d, 1, n-1))
         IN IF ~result.ok THEN Raised
            ELSE unflatten_put(result.val, split(d[n][1]), d[n][2])

----------------------------------------------------------------------------
(* json.dump(..., sort_keys=True): the document lists the keys of every     *)
(* level in ascending str order.  A document is kept as the ordered         *)
(* structure json.load builds from it.                                      *)

RECURSIVE json_dump(_)
\* mutant: sort_keys is left out
json_dump_unsorted(d) == d
json_dump(d) ==
    IF d = <<>> THEN <<>>
    ELSE LET k == CHOOSE m \in DictKeys(d) :
                     \A o \in DictKeys(d) \ {m} : StrLess(m, o)
             v == DictGet(d, k)
             others == SelectSeq(d, LAMBDA e : e[1] # k)
         IN << <<k, IF IsDict(v) THEN Node(json_dump(v.node)) ELSE v>> >>
            \o json_dump(others)

----------------------------------------------------------------------------
(* Change detector *)

\* mutant: changed_keys is left out of the result
detect_changes_added(current_dict, previous_dict) ==
    LET current_flat == flatten_dict(current_dict, <<>>)
        previous_flat == flatten_dict(previous_dict, <<>>)
        added_keys == SelectSeq(current_flat,
                          LAMBDA e : ~DictHas(previous_flat, e[1]))
    IN {added_keys[i][1] : i \in 1..Len(added_keys)}

detect_changes(current_dict, previous_dict) ==
    LET current_flat == flatten_dict(current_dict, <<>>)
        previous_flat == flatten_dict(previous_dict, <<>>)
        added_keys == SelectSeq(current_flat,
                          LAMBDA e : ~DictHas(previous_flat, e[1]))
        changed_keys == SelectSeq(current_flat,
                          LAMBDA e : /\ DictHas(previous_flat, e[1])
                                     /\ e[2] # DictGet(previous_flat, e[1]))
        both == added_keys \o changed_keys
    IN {both[i][1] : i \in 1..Len(both)}

----------------------------------------------------------------------------
(* Bounded input universes *)

MaxDepth == 2
MaxMerges == 2

ka == <<"a">>
kb == <<"b">>
kab == <<"a", "|", "b">>
kaa == <<"a", "|", "a">>
kempty == <<>>
ksa == <<"|", "a">>

\* all dicts whose keys are a subsequence of K and whose values are in V
RECURSIVE Dicts(_, _)
Dicts(K, V) ==
    IF K = <<>> THEN {<<>>}
    ELSE LET rest == Dicts(Tail(K), V)
         IN rest \cup {<< <<K[1], v>> >> \o r : v \in V, r \in rest}

\* all catalogs of depth at most n over the keys K and the leaf texts T
RECURSIVE Catalogs(_, _, _)
Catalogs(K, T, n) ==
    Dicts(K, {Leaf(t) : t \in T}
             \cup (IF n > 1 THEN {Node(d) : d \in Catalogs(K, T, n-1)} ELSE {}))

\* all flat dicts of at most two entries over the keys K and the texts T,
\* in every insertion order
FlatDicts(K, T) ==
    {<<>>} \cup {<< <<k, t>> >> : k \in K, t \in T}
    \cup {<< <<ks[1], t1>>, <<ks[2], t2>> >> :
            ks \in {p \in K \X K : p[1] # p[2]}, t1 \in T, t2 \in T}

CodecCatalogs ==
    Catalogs(<<kempty, ka>>, {"x", "y"}, MaxDepth)
    \cup Catalogs(<<ka, kab>>, {"x"}, 2)
DetectCatalogs == Catalogs(<<ka, kb>>, {"x", "y"}, 2)
MergeFlats == FlatDicts({ka, kab, kb}, {"", "x", "y"})
DumpFlats == FlatDicts({kb, kab, kaa}, {"x", "y"})

RECURSIVE KeySegments(_)
KeySegments(d) ==
    UNION {{d[i][1]} \cup (IF IsDict(d[i][2]) THEN KeySegments(d[i][2].node) ELSE {})
           : i \in 1..Len(d)}
RECURSIVE HasEmptyNested(_)
HasEmptyNested(d) ==
    \E i \in 1..Len(d) :
        /\ IsDict(d[i][2])
        /\ \/ d[i][2].node = <<>>
           \/ HasEmptyNested(d[i][2].node)
RECURSIVE Depth(_)
Depth(d) ==
    IF d = <<>> THEN 1
    ELSE LET ds == {IF IsDict(d[i][2]) THEN 1 + Depth(d[i][2].node) ELSE 1
                    : i \in 1..Len(d)}
         IN CHOOSE m \in ds : \A o \in ds : o <= m
NoSeparator(d) == \A k \in KeySegments(d) : \A i \in 1..Len(k) : k[i] # sep[1]
EmptyTopNode(d) == DictHas(d, <<>>) /\ IsDict(DictGet(d, <<>>))

----------------------------------------------------------------------------
(* The pipeline's variables stay idle while a pure function is exercised *)

MainIdle ==
    /\ en_file = <<>> /\ git = <<>> /\ files = <<>> /\ pass = 0 /\ idx = 0
    /\ pc = "idle" /\ to_translate = <<>> /\ pending = {} /\ target_flat = <<>>
    /\ translated_flat_dict = <<>> /\ calls = {} /\ failed = {} /\ log = <<>>

----------------------------------------------------------------------------
(* SpecCodec: flatten_dict, then unflatten_dict, on every catalog *)

InitCodec ==
    /\ MainIdle
    /\ arg \in CodecCatalogs
    /\ res = <<>>
    /\ stage = 0

Flatten ==
    /\ stage = 0
    /\ res' = [flat |-> flatten_dict(arg, <<>>)]
    /\ stage' = 1
    /\ UNCHANGED <<arg, mainVars>>

Unflatten ==
    /\ stage = 1
    /\ res' = [flat |-> res.flat, back |-> unflatten_dict(res.flat)]
    /\ stage' = 2
    /\ UNCHANGED <<arg, mainVars>>

NextCodec == Flatten \/ Unflatten
SpecCodec == InitCodec /\ [][NextCodec]_vars

\* C5 as stated: for every catalog without a separator in a key segment,
\* unflatten_dict(flatten_dict(C)) == C.
C5_RoundTrip_AsStated ==
    (stage = 2 /\ NoSeparator(arg)) => (res.back.ok /\ DictEq(res.back.val, arg))

\* C5 amended: for every catalog without a separator in a key segment, without
\* an empty nested catalog, and whose top-level key "" (if any) holds a leaf,
\* unflatten_dict(flatten_dict(C)) == C.
C5_RoundTrip ==
    (stage = 2 /\ NoSeparator(arg) /\ ~HasEmptyNested(arg) /\ ~EmptyTopNode(arg))
        => (res.back.ok /\ DictEq(res.back.val, arg))

\* a nested catalog with an empty key segment below the top level went
\* through the round trip
C5_Witness ==
    /\ stage = 2 /\ NoSeparator(arg) /\ ~HasEmptyNested(arg) /\ ~EmptyTopNode(arg)
    /\ Depth(arg) = 2 /\ Len(arg) = 2
    /\ \E i \in 1..Len(arg) : IsDict(arg[i][2]) /\ DictHas(arg[i][2].node, <<>>)
    /\ Len(res.flat) >= 3

----------------------------------------------------------------------------
(* SpecDetect: detect_changes on every pair of catalogs *)

InitDetect ==
    /\ MainIdle
    /\ arg \in [current : DetectCatalogs, previous : DetectCatalogs]
    /\ res = {}
    /\ stage = 0

Detect ==
    /\ stage = 0
    /\ res' = detect_changes(arg.current, arg.previous)
    /\ stage' = 1
    /\ UNCHANGED <<arg, mainVars>>

NextDetect == Detect
SpecDetect == InitDetect /\ [][NextDetect]_vars

\* C4: detect_changes returns exactly the flat paths of current that are
\* absent from flattened previous or present in both with a different value;
\* so every returned path is a path of current, and no unchanged path and no
\* path absent from both is returned.
C4_DetectExact ==
    stage = 1 =>
        LET cf == FlatMap(flatten_dict(arg.current, <<>>))
            pf == FlatMap(flatten_dict(arg.previous, <<>>))
        IN /\ res \subseteq DOMAIN cf
           /\ \A p \in DOMAIN cf :
                 p \in res <=> (p \notin DOMAIN pf \/ cf[p] # pf[p])
           /\ \A p \in DOMAIN cf \cap DOMAIN pf : cf[p] = pf[p] => p \notin res

\* one path added, one changed, one unchanged
C4_Witness ==
    /\ stage = 1
    /\ arg.previous = << <<ka, Node(<< <<ka, Leaf("x")>>, <<kb, Leaf("x")>> >>)>> >>
    /\ arg.current = << <<ka, Node(<< <<ka, Leaf("x")>>, <<kb, Leaf("y")>> >>)>>,
                        <<kb, Leaf("y")>> >>
    /\ res = {kab, kb}

----------------------------------------------------------------------------
(* SpecMerge: lines 184-185 of main applied repeatedly to one target_flat *)

InitMerge ==
    /\ MainIdle
    /\ arg \in [T : MergeFlats, R : MergeFlats]
    /\ res = [flat |-> arg.T]
    /\ stage = 0

Merge ==
    /\ stage < MaxMerges
    /\ LET flat == update(res.flat, arg.R)
           out == unflatten_dict(flat)
       IN res' = [flat |-> flat, out |-> out,
                  first |-> IF stage = 0 THEN out ELSE res.first]
    /\ stage' = stage + 1
    /\ UNCHANGED <<arg, mainVars>>

NextMerge == Merge
SpecMerge == InitMerge /\ [][NextMerge]_vars

\* what unflatten_dict produced: the same catalog, or an exception both times
SameOutcome(x, y) == x.ok = y.ok /\ (x.ok => DictEq(x.val, y.val))

\* C8: merging R into T a second time yields the same target catalog as
\* merging it once.
C8_MergeIdempotent ==
    stage >= 2 => SameOutcome(res.out, res.first)

\* a merge that replaced a value of T and added a key was repeated
C8_Witness ==
    /\ stage = 2 /\ res.out.ok
    /\ \E i \in 1..Len(arg.R) :
          /\ DictHas(arg.T, arg.R[i][1])
          /\ DictGet(arg.T, arg.R[i][1]) # arg.R[i][2]
    /\ \E i \in 1..Len(arg.R) : ~DictHas(arg.T, arg.R[i][1])

----------------------------------------------------------------------------
(* SpecDump: lines 185-189 of main on two flat dicts *)

\* lines 185-189 for the language code `code`: the document written, or the
\* exception of unflatten_dict
write_target(code, flat) ==
    LET updated_target_dict == unflatten_dict(flat)
    IN IF updated_target_dict.ok
       THEN Returned(json_dump(<< <<code, Node(updated_target_dict.val)>> >>))
       ELSE Raised

InitDump ==
    /\ MainIdle
    /\ arg \in [A : DumpFlats, B : DumpFlats]
    /\ res = <<>>
    /\ stage = 0

Write ==
    /\ stage = 0
    /\ res' = [a |-> write_target(<<"d", "e">>, arg.A),
               b |-> write_target(<<"d", "e">>, arg.B)]
    /\ stage' = 1
    /\ UNCHANGED <<arg, mainVars>>

NextDump == Write
SpecDump == InitDump /\ [][NextDump]_vars

RECURSIVE SortedKeys(_)
SortedKeys(doc) ==
    /\ \A i \in 1..(Len(doc) - 1) : StrLess(doc[i][1], doc[i+1][1])
    /\ \A i \in 1..Len(doc) : IsDict(doc[i][2]) => SortedKeys(doc[i][2].node)

LogicallyEqual(A, B) ==
    /\ unflatten_dict(A).ok /\ unflatten_dict(B).ok
    /\ DictEq(unflatten_dict(A).val, unflatten_dict(B).val)

\* C9: two flat dicts that unflatten to logically equal catalogs are written
\* as the same document, whose keys ascend at every level.
C9_DumpDeterministic ==
    (stage = 1 /\ LogicallyEqual(arg.A, arg.B))
        => /\ res.a.ok /\ res.b.ok
           /\ res.a.val = res.b.val
           /\ SortedKeys(res.a.val)

\* the same two nested keys inserted in opposite orders, neither order sorted
\* at the top level
C9_Witness ==
    /\ stage = 1 /\ LogicallyEqual(arg.A, arg.B)
    /\ Len(arg.A) = 2 /\ arg.A[1][1] = arg.B[2][1] /\ arg.A[2][1] = arg.B[1][1]
    /\ arg.A[1][1] = kb /\ arg.A[2][1] = kab

----------------------------------------------------------------------------
(* The pipeline *)

MaxPasses == 2

en == <<"e", "n">>
de == <<"d", "e">>
es == <<"e", "s">>

\* the calls of main under __main__, in order (the first two of the list)
LANGS == << [language_code |-> de, target_language |-> "German"],
            [language_code |-> es, target_language |-> "Spanish"] >>
Codes == {LANGS[i].language_code : i \in 1..Len(LANGS)}

\* load_en_changes_from_last_commits: git.Repo, fetch and iter_commits are
\* outside the try; fewer than two commits, or a previous version that cannot
\* be read or parsed, give {}
load_en_changes_from_last_commits(g) ==
    IF ~g.repo_ok THEN Raised
    ELSE IF g.commits < 2 THEN Returned(<<>>)
    ELSE IF ~g.previous_version.ok THEN Returned(<<>>)
    ELSE Returned(g.previous_version.val)

\* remove_en_prefix: keeps the keys starting with "en|", without the prefix
remove_en_prefix(dictionary) ==
    LET prefix == en \o sep
        kept == SelectSeq(dictionary, LAMBDA e : startswith(e[1], prefix))
    IN [i \in 1..Len(kept) |->
           <<SubSeq(kept[i][1], Len(prefix) + 1, Len(kept[i][1])), kept[i][2]>>]

\* get_keys_to_translate: {k: en_flat[k] for k in keys_to_translate}; the
\* order of the result is the iteration order of a set, which the for loop of
\* main takes up by visiting the keys in any order
get_keys_to_translate(current_en_dict, g) ==
    LET previous_en_dict == load_en_changes_from_last_commits(g)
    IN IF ~previous_en_dict.ok THEN Raised
       ELSE LET keys_to_translate ==
                    detect_changes(current_en_dict, previous_en_dict.val)
                en_flat == flatten_dict(current_en_dict, <<>>)
            IN Returned(SelectSeq(en_flat, LAMBDA e : e[1] \in keys_to_translate))

\* str.strip() of the texts the provider answers
strip(t) == IF t = " " THEN "" ELSE t

\* mutant: a failure gives the empty text
translate_text_blank(text, answer) ==
    IF answer.ok THEN strip(answer.val) ELSE ""

\* translate_text: the provider's answer stripped, or the original text when
\* anything inside the try raises
translate_text(text, answer) ==
    IF answer.ok THEN strip(answer.val) ELSE text

\* mutant: the emptiness test is inverted
already_translated_inverted(flat, k) == DictHas(flat, k) /\ DictGet(flat, k) = ""
\* mutant: nothing is skipped
already_translated_never(flat, k) == FALSE
\* line 177: k in target_flat and target_flat[k]
already_translated(flat, k) == DictHas(flat, k) /\ DictGet(flat, k) # ""

\* lines 165-166: json.load(f)[language_code]
read_target(file, code) ==
    IF ~file.exists THEN Raised
    ELSE IF ~DictHas(file.doc, code) THEN Raised
    ELSE Returned(DictGet(file.doc, code).node)

ProviderAnswers == {Returned("Tr"), Returned(" "), Raised}

Doc(code, cat) == [exists |-> TRUE, doc |-> << <<code, Node(cat)>> >>]
Missing == [exists |-> FALSE, doc |-> <<>>]

SourceCatalogs ==
    { << <<ka, Leaf("Hi")>> >>,
      << <<ka, Leaf("Hi")>>, <<kb, Leaf("")>> >>,
      << <<ka, Leaf("Hi")>>, <<kb, Leaf("Bye")>> >>,
      << <<ka, Node(<< <<kb, Leaf("Hi")>> >>)>> >>,
      << <<ka, Node(<< <<kempty, Leaf("Hi")>> >>)>> >>,
      << <<kempty, Leaf("Hi")>> >>,
      << <<kempty, Node(<< <<ka, Leaf("Hi")>> >>)>> >>,
      << <<ksa, Leaf("Hi")>> >> }
SourceDocs ==
    {<< <<en, Node(c)>> >> : c \in SourceCatalogs}
    \cup { << <<en, Node(<< <<ka, Leaf("Hi")>> >>)>>, <<kb, Leaf("Bye")>> >> }
PreviousDocs ==
    { << <<en, Node(<< <<ka, Leaf("Hi")>> >>)>> >>,
      << <<en, Node(<< <<ka, Leaf("Old")>>, <<kb, Leaf("Bye")>> >>)>> >> }
GitStates ==
    {[repo_ok |-> FALSE, commits |-> 0, previous_version |-> Raised],
     [repo_ok |-> TRUE, commits |-> 1, previous_version |-> Raised],
     [repo_ok |-> TRUE, commits |-> 2, previous_version |-> Raised]}
    \cup {[repo_ok |-> TRUE, commits |-> 2, previous_version |-> Returned(d)]
          : d \in PreviousDocs}
TargetCatalogs ==
    { <<>>,
      << <<ka, Leaf("X")>> >>,
      << <<ka, Leaf("")>> >>,
      << <<ka, Leaf("X")>>, <<kb, Leaf("")>> >>,
      << <<ka, Node(<< <<kb, Leaf("X")>> >>)>> >>,
      << <<kempty, Node(<< <<ka, Leaf("X")>> >>)>> >>,
      << <<kab, Leaf("Y")>>, <<ka, Leaf("X")>> >>,
      << <<ksa, Leaf("X")>> >> }
TargetFiles(code) == {Missing} \cup {Doc(code, c) : c \in TargetCatalogs}

NoRun == [outcome |-> "none", nonempty |-> FALSE, noseparator |-> FALSE]

PureIdle == arg = <<>> /\ res = <<>> /\ stage = 0

Init ==
    /\ PureIdle
    /\ en_file \in SourceDocs
    /\ git \in GitStates
    /\ files \in {f \in [Codes -> UNION {TargetFiles(c) : c \in Codes}] :
                     \A c \in Codes : f[c] \in TargetFiles(c)}
    /\ pass = 1
    /\ idx = 1
    /\ pc = "main"
    /\ to_translate = <<>>
    /\ pending = {}
    /\ target_flat = <<>>
    /\ translated_flat_dict = <<>>
    /\ calls = {}
    /\ failed = {}
    /\ log = [runs |-> <<>>, prev |-> [c \in Codes |-> NoRun]]

code == LANGS[idx].language_code

\* every value the call recorded is a non-empty string
AllNonEmpty(translated) == \A i \in 1..Len(translated) : translated[i][2] # ""

\* how the call of main for the language c ended in this pass
Summary(c) ==
    IF \E i \in 1..Len(log.runs) : log.runs[i].code = c
    THEN LET r == log.runs[CHOOSE i \in 1..Len(log.runs) : log.runs[i].code = c]
         IN [outcome |-> r.outcome, nonempty |-> AllNonEmpty(r.translated),
             noseparator |-> NoSeparator(r.read)]
    ELSE NoRun

\* the record of one call of main
Run(outcome, before, merged, written) ==
    [pass |-> pass, code |-> code, outcome |-> outcome, read |-> files[code].doc,
     to_translate |-> to_translate, before |-> before,
     translated |-> translated_flat_dict, calls |-> calls, failed |-> failed,
     merged |-> merged, written |-> written]

\* lines 165-166 raise: the exception leaves main and ends the process
MainOpenRaises ==
    /\ pc = "main" /\ idx <= Len(LANGS)
    /\ ~read_target(files[code], code).ok
    /\ pc' = "raised"
    /\ log' = [log EXCEPT !.runs = Append(@, Run("raised_open", <<>>, <<>>, <<>>))]
    /\ UNCHANGED <<en_file, git, files, pass, idx, to_translate, pending,
                   target_flat, translated_flat_dict, calls, failed, pureVars>>

\* line 168 raises: the exception leaves main and ends the process
MainSnapshotRaises ==
    /\ pc = "main" /\ idx <= Len(LANGS)
    /\ read_target(files[code], code).ok
    /\ ~get_keys_to_translate(en_file, git).ok
    /\ pc' = "raised"
    /\ log' = [log EXCEPT !.runs = Append(@, Run("raised_snapshot", <<>>, <<>>, <<>>))]
    /\ UNCHANGED <<en_file, git, files, pass, idx, to_translate, pending,
                   target_flat, translated_flat_dict, calls, failed, pureVars>>

\* lines 165-172
MainBegin ==
    /\ pc = "main" /\ idx <= Len(LANGS)
    /\ read_target(files[code], code).ok
    /\ get_keys_to_translate(en_file, git).ok
    /\ to_translate' = remove_en_prefix(get_keys_to_translate(en_file, git).val)
    /\ pending' = DictKeys(to_translate')
    /\ target_flat' = flatten_dict(read_target(files[code], code).val, <<>>)
    /\ translated_flat_dict' = <<>>
    /\ calls' = {}
    /\ failed' = {}
    /\ pc' = "loop"
    /\ UNCHANGED <<en_file, git, files, pass, idx, log, pureVars>>

\* lines 175-179: one iteration that skips
LoopSkip ==
    /\ pc = "loop"
    /\ \E k \in pending :
          /\ already_translated(target_flat, k)
          /\ pending' = pending \ {k}
    /\ UNCHANGED <<en_file, git, files, pass, idx, pc, to_translate, target_flat,
                   translated_flat_dict, calls, failed, log, pureVars>>

\* lines 175-182: one iteration that asks the provider
LoopTranslate ==
    /\ pc = "loop"
    /\ \E k \in pending, answer \in ProviderAnswers :
          /\ ~already_translated(target_flat, k)
          /\ LET v == DictGet(to_translate, k)
                 new_translation == translate_text(v, answer)
             IN translated_flat_dict' = DictSet(translated_flat_dict, k, new_translation)
          /\ calls' = calls \cup {k}
          /\ failed' = IF answer.ok THEN failed ELSE failed \cup {k}
          /\ pending' = pending \ {k}
    /\ UNCHANGED <<en_file, git, files, pass, idx, pc, to_translate, target_flat,
                   log, pureVars>>

\* lines 184-185, unflatten_dict raising: nothing is written, the exception
\* leaves main and ends the process
MainUnflattenRaises ==
    /\ pc = "loop" /\ pending = {}
    /\ target_flat' = update(target_flat, translated_flat_dict)
    /\ ~write_target(code, target_flat').ok
    /\ pc' = "raised"
    /\ log' = [log EXCEPT !.runs = Append(@, Run("raised_unflatten", target_flat, target_flat', <<>>))]
    /\ UNCHANGED <<en_file, git, files, pass, idx, to_translate, pending,
                   translated_flat_dict, calls, failed, pureVars>>

\* lines 184-189, and the return to the driver
MainWrite ==
    /\ pc = "loop" /\ pending = {}
    /\ LET merged == update(target_flat, translated_flat_dict)
           written == write_target(code, merged)
       IN /\ written.ok
          /\ files' = [files EXCEPT ![code] = [exists |-> TRUE, doc |-> written.val]]
          /\ log' = [log EXCEPT !.runs = Append(@, Run("written", target_flat, merged, written.val))]
    /\ idx' = idx + 1
    /\ pc' = "main"
    /\ to_translate' = <<>>
    /\ target_flat' = <<>>
    /\ translated_flat_dict' = <<>>
    /\ calls' = {}
    /\ failed' = {}
    /\ UNCHANGED <<en_file, git, pass, pending, pureVars>>

\* the script is started again, after it ended or was ended by an exception
Restart ==
    /\ \/ pc = "raised"
       \/ pc = "main" /\ idx > Len(LANGS)
    /\ pass < MaxPasses
    /\ pass' = pass + 1
    /\ idx' = 1
    /\ pc' = "main"
    /\ to_translate' = <<>>
    /\ pending' = {}
    /\ target_flat' = <<>>
    /\ translated_flat_dict' = <<>>
    /\ calls' = {}
    /\ failed' = {}
    /\ log' = [runs |-> <<>>, prev |-> [c \in Codes |-> Summary(c)]]
    /\ UNCHANGED <<en_file, git, files, pureVars>>

Next ==
    \/ MainOpenRaises
    \/ MainSnapshotRaises
    \/ MainBegin
    \/ LoopSkip
    \/ LoopTranslate
    \/ MainUnflattenRaises
    \/ MainWrite
    \/ Restart

Spec == Init /\ [][Next]_vars

----------------------------------------------------------------------------
(* Properties of the pipeline *)

Runs == {log.runs[i] : i \in 1..Len(log.runs)}
NonEmptyAt(flat, k) == DictHas(flat, k) /\ DictGet(flat, k) # ""

\* the flattened target catalog of the document a call wrote
WrittenFlat(r) == flatten_dict(DictGet(r.written, r.code).node, <<>>)

\* the path j names a proper ancestor of the path k
ProperAncestor(j, k) ==
    /\ Len(split(j)) < Len(split(k))
    /\ SubSeq(split(k), 1, Len(split(j))) = split(j)

C2_NoCallForTranslated ==
    /\ pc = "loop" => \A k \in calls : ~NonEmptyAt(target_flat, k)
    /\ \A r \in Runs : \A k \in r.calls : ~NonEmptyAt(r.before, k)

\* the loop ended having skipped a translated path and called the provider
\* for another one
C2_Witness ==
    /\ pc = "loop" /\ pending = {}
    /\ \E k \in DictKeys(to_translate) : NonEmptyAt(target_flat, k) /\ k \notin calls
    /\ calls # {}

Eligible(flat, k) == ~NonEmptyAt(flat, k)

\* C3: a path whose provider call failed is recorded with its source text, in
\* translated_flat_dict and in the merged target_flat; and a failure does not
\* end the loop: the call leaves the loop only after every eligible path got a
\* provider call and a recorded value.
C3_FailureFallsBack ==
    /\ \A k \in failed :
          /\ DictHas(translated_flat_dict, k)
          /\ DictGet(translated_flat_dict, k) = DictGet(to_translate, k)
    /\ (failed # {} /\ pc # "loop") => pending = {}
    /\ \A r \in Runs : r.failed # {} =>
          /\ r.outcome \in {"written", "raised_unflatten"}
          /\ \A k \in r.failed :
                /\ DictGet(r.translated, k) = DictGet(r.to_translate, k)
                /\ DictGet(r.merged, k) = DictGet(r.to_translate, k)
          /\ \A k \in DictKeys(r.to_translate) :
                Eligible(r.before, k) => k \in r.calls /\ DictHas(r.translated, k)

\* the provider failed for the first path visited and answered for the next
C3_Witness ==
    \E r \in Runs :
        /\ r.outcome = "written"
        /\ Len(r.translated) = 2
        /\ r.translated[1][1] \in r.failed
        /\ r.translated[1][2] = "Hi"
        /\ r.translated[2][1] \notin r.failed
        /\ r.translated[2][2] = "Tr"

\* the snapshot cannot be retrieved
SnapshotFailure == ~git.repo_ok \/ git.commits < 2 \/ ~git.previous_version.ok

\* the paths of the current source catalog, without the "en|" prefix
SourcePaths == DictKeys(remove_en_prefix(flatten_dict(en_file, <<>>)))

\* C6: a failure to retrieve the previous snapshot never ends a call of main;
\* the change set then holds every path of the current source catalog.
C6_SnapshotFailureTolerated ==
    SnapshotFailure =>
        /\ \A r \in Runs : r.outcome # "raised_snapshot"
        /\ pc = "loop" => DictKeys(to_translate) = SourcePaths

\* the script has ended, normally or by an exception
ProcessEnded == pc = "raised" \/ (pc = "main" /\ idx > Len(LANGS))

\* C7: an exception in the call of main for one language ends that call only;
\* when the script ends, main has been called for every language of the list.
C7_LaterLanguagesProcessed ==
    ProcessEnded => \A c \in Codes : \E r \in Runs : r.code = c

EmptySourceTopNode ==
    /\ DictHas(en_file, en) /\ IsDict(DictGet(en_file, en))
    /\ EmptyTopNode(DictGet(en_file, en).node)

====
